---------------------------- MODULE Spec2Model ----------------------------
(***************************************************************************)
(* A model of the discovered-flow registry (src/src/nic_monitor_di.c) and  *)
(* of the millisecond histogram (src/src/histogram.h) of ltntstools.       *)
(*                                                                         *)
(* Number representations.  TLC's integers are 32 bits wide, so the C      *)
(* integer types wider than 16 bits are kept as sequences of 16-bit limbs, *)
(* most significant limb first: a uint32_t is <<hi, lo>>, a uint64_t is    *)
(* <<l3, l2, l1, l0>>.  Shifts, masks and comparisons are computed on the  *)
(* limbs with the width of the C type.                                     *)
(***************************************************************************)
EXTENDS Integers, Sequences, FiniteSets, TLC

VARIABLES
    littleEndian,   \* byte order of the host the tool was built for
    automaticallyRecordStreams, \* ctx->automaticallyRecordStreams
    verbose,        \* ctx->verbose
    di,             \* heap: pointer -> struct discovered_item_s
    list,           \* ctx->list, the pointers in list order (head first)
    hashIndex,      \* ctx->hashIndex: slot -> sequence of pointers
    cacheHit,       \* ctx->cacheHit
    cacheMiss,      \* ctx->cacheMiss
    cacheHitRatio,  \* ctx->cacheHitRatio, kept as the operands of its formula
    lastHash,       \* the fingerprint computed by the last find_or_create
    lastRet,        \* the pointer returned by the last find_or_create
    returned,       \* history: the (wire 4-tuple, returned pointer) pairs
    hist,           \* a struct ltn_histogram_s, or NULL
    now,            \* the wallclock gettimeofday reads
    hg,             \* history of the histogram calls
    lock,           \* ctx->lock: the thread holding the mutex, or "none"
    cap,            \* the capture thread: its position and its locals
    ui,             \* the stats/UI thread: its position and its locals
    xl,             \* the list's nodes, node -> [next, prev], where steps are single stores
    freed,          \* addresses free() has taken back
    fc,             \* history of the find_or_create calls
    bk              \* history: the last flag operation and the records before it

regVars == <<littleEndian, automaticallyRecordStreams, verbose, di, list, hashIndex,
             cacheHit, cacheMiss, cacheHitRatio, lastHash, lastRet, returned>>

histVars == <<hist, now, hg>>

concVars == <<lock, cap, ui, xl, freed>>

traceVars == <<fc, bk>>

vars == <<regVars, histVars, concVars, traceVars>>

NULL == 0

(* &ctx->list, the head node of the ordered list.                          *)
ListHead == -1

-----------------------------------------------------------------------------
(* Bounds of the model.                                                    *)

MaxCalls == 3

MaxHistOps == 6

MaxUpdates == 2

-----------------------------------------------------------------------------
(* 16-bit bitwise operators, computed bit by bit.                          *)

RECURSIVE BitAnd(_, _)
BitAnd(x, y) ==
    IF x = 0 \/ y = 0 THEN 0
    ELSE (x % 2) * (y % 2) + 2 * BitAnd(x \div 2, y \div 2)

RECURSIVE BitOr(_, _)
BitOr(x, y) ==
    IF x = 0 THEN y
    ELSE IF y = 0 THEN x
    ELSE (IF x % 2 = 1 \/ y % 2 = 1 THEN 1 ELSE 0)
         + 2 * BitOr(x \div 2, y \div 2)

U16 == 2^16

(* The bytes of a 16-bit and of a 32-bit object in memory order, and the   *)
(* object read back from its bytes, on the host's byte order.              *)
Load16(m, le) == IF le THEN m[2] * 256 + m[1] ELSE m[1] * 256 + m[2]

Load32(m, le) ==
    IF le THEN <<m[4] * 256 + m[3], m[2] * 256 + m[1]>>
          ELSE <<m[1] * 256 + m[2], m[3] * 256 + m[4]>>

Store32(v, le) ==
    IF le THEN <<v[2] % 256, v[2] \div 256, v[1] % 256, v[1] \div 256>>
          ELSE <<v[1] \div 256, v[1] % 256, v[2] \div 256, v[2] % 256>>

Swap16(x) == (x % 256) * 256 + (x \div 256)

(* ntohs / ntohl: a byte swap on a little-endian host, the identity on a   *)
(* big-endian one.                                                         *)
Ntohs(x, le) == IF le THEN Swap16(x) ELSE x

Ntohl(v, le) == IF le THEN <<Swap16(v[2]), Swap16(v[1])>> ELSE v

(* Unsigned comparison of two limb sequences of the same length.           *)
RECURSIVE LimbsLess(_, _)
LimbsLess(a, b) ==
    IF a = <<>> THEN FALSE
    ELSE IF Head(a) # Head(b) THEN Head(a) < Head(b)
    ELSE LimbsLess(Tail(a), Tail(b))

-----------------------------------------------------------------------------
(* Packets.  A packet on the wire carries its addresses and ports as bytes *)
(* in network order; the capture driver hands the headers to the registry  *)
(* as structs whose fields hold those bytes unconverted.                   *)

PortBytes(p) == <<p \div 256, p % 256>>

WirePacket(sip, sport, dip, dport) ==
    [sip |-> sip, sport |-> PortBytes(sport),
     dip |-> dip, dport |-> PortBytes(dport)]

Headers(w, le) ==
    [saddr    |-> Load32(w.sip, le),
     daddr    |-> Load32(w.dip, le),
     uh_sport |-> Load16(w.sport, le),
     uh_dport |-> Load16(w.dport, le)]

SrcA == <<192, 168, 0, 1>>
SrcB == <<192, 168, 0, 2>>
SrcC == <<192, 168, 0, 3>>
DstA == <<10, 0, 0, 1>>
DstB == <<10, 0, 16, 1>>

(* The packets of the registry specification: three sources, two          *)
(* destination addresses that share their low 12 bits (one hash slot), and *)
(* the destination ports 255 and 256, whose byte-swapped order is reversed.*)
Destinations == {<<DstA, 255>>, <<DstA, 256>>, <<DstB, 255>>}

Packets ==
    { WirePacket(s, 5000, d[1], d[2]) : s \in {SrcA, SrcB, SrcC},
                                        d \in Destinations }

-----------------------------------------------------------------------------
(* hash_index_cal_hash: ((addr << 4) & 0xfff0) | (port & 0x000f), with     *)
(* addr a uint32_t, port a uint16_t and the result cut to uint16_t.        *)

Shl4(v) == <<(v[1] * 16 + v[2] \div 4096) % U16, (v[2] * 16) % U16>>

hash_index_cal_hash_mut1(addr, port) ==
    BitOr(BitAnd(Shl4(addr)[2], 65280), BitAnd(port, 15))

hash_index_cal_hash(addr, port) ==
    BitOr(BitAnd(Shl4(addr)[2], 65520), BitAnd(port, 15))

(* _compute_stream_hash: the fingerprint of the packet's destination.      *)
compute_stream_hash_raw_port(hdr, le) ==
    hash_index_cal_hash(Ntohl(hdr.daddr, le), hdr.uh_dport)

compute_stream_hash(hdr, le) ==
    hash_index_cal_hash(Ntohl(hdr.daddr, le), Ntohs(hdr.uh_dport, le))

-----------------------------------------------------------------------------
(* The hash index: a slot -> chain map.                                    *)

hash_index_get_count(hi, h) == IF h \in DOMAIN hi THEN Len(hi[h]) ELSE 0

hash_index_set(hi, h, v) ==
    IF h \in DOMAIN hi
    THEN IF \E i \in 1..Len(hi[h]) : hi[h][i] = v
         THEN hi
         ELSE [hi EXCEPT ![h] = Append(@, v)]
    ELSE [k \in DOMAIN hi \cup {h} |-> IF k = h THEN <<v>> ELSE hi[k]]

(* network_addr_compare: 1 when the two header pairs carry the same        *)
(* source and destination address and port.                                *)
network_addr_compare(hdr, item) ==
    /\ hdr.saddr = item.saddr
    /\ hdr.daddr = item.daddr
    /\ hdr.uh_sport = item.uh_sport
    /\ hdr.uh_dport = item.uh_dport

-----------------------------------------------------------------------------
(* The histogram (histogram.h).                                            *)
(*                                                                         *)
(* An unsigned value is kept as its two's complement residue: a negative   *)
(* integer v stands for 2^w + v (the value an int v converts to), so that  *)
(* the conversion of an int to uint32_t or uint64_t keeps the integer and  *)
(* the comparisons are the unsigned ones of the C types.                   *)

(* C's integer division, which truncates toward zero.                      *)
CDiv(a, b) == IF a >= 0 THEN a \div b ELSE -((-a) \div b)

(* a < b for two uint64_t.                                                 *)
ULess(a, b) == IF (a < 0) = (b < 0) THEN a < b ELSE b < 0

(* a < b and b < a for a uint32_t a, zero-extended, and a uint64_t b.      *)
U32LessU64(a, b) == IF a < 0 THEN b < 0 ELSE (b < 0 \/ a < b)

U64LessU32(b, a) == IF a < 0 THEN b >= 0 ELSE (b >= 0 /\ b < a)

ZeroTv == [tv_sec |-> 0, tv_usec |-> 0]

(* The null histogram handle: ltn_histogram_alloc returned -1.             *)
NoHist == [null |-> TRUE]

(* The bucket array is calloc'ed: a bucket never written is zero.  The     *)
(* array is kept as the map of the written buckets.  calloc is given       *)
(* bucketCount elements of sizeof(struct ltn_histogram_s), larger than a   *)
(* bucket, so the element at index bucketCount lies inside the allocation. *)
ZeroBucket == [count |-> 0, lastUpdate |-> ZeroTv]

Bucket(ctx, i) ==
    IF i \in DOMAIN ctx.buckets THEN ctx.buckets[i] ELSE ZeroBucket

SetBucket(b, i, v) == [k \in DOMAIN b \cup {i} |-> IF k = i THEN v ELSE b[k]]

(* ltn_histogram_bucket: the index ms - minValMs into the array.           *)
ltn_histogram_bucket(ctx, ms) == ms - ctx.minValMs

ltn_histogram_timeval_to_ms(tv) ==
    (tv.tv_sec * 1000) + CDiv(tv.tv_usec, 1000)

(* ltn_histogram_timeval_subtract(result, x, y): y is updated in place.    *)
ltn_histogram_timeval_subtract(x, y) ==
    LET n1 == CDiv(y.tv_usec - x.tv_usec, 1000000) + 1
        y1 == IF x.tv_usec < y.tv_usec
              THEN [tv_sec  |-> y.tv_sec + n1,
                    tv_usec |-> y.tv_usec - 1000000 * n1]
              ELSE y
        n2 == CDiv(x.tv_usec - y1.tv_usec, 1000000)
        y2 == IF x.tv_usec - y1.tv_usec > 1000000
              THEN [tv_sec  |-> y1.tv_sec - n2,
                    tv_usec |-> y1.tv_usec + 1000000 * n2]
              ELSE y1
    IN  [result   |-> [tv_sec  |-> x.tv_sec - y2.tv_sec,
                       tv_usec |-> x.tv_usec - y2.tv_usec],
         y        |-> y2,
         negative |-> x.tv_sec < y2.tv_sec]

ltn_histogram_reset(ctx, t) ==
    LET b == ctx.buckets
    IN  [ctx EXCEPT
           !.buckets = [k \in { i \in DOMAIN b : i >= ctx.bucketCount } |-> b[k]],
           !.intervalLast = t,
           !.bucketMissCount = 0,
           !.cumulativeMs = 0]

ltn_histogram_alloc(minValMs, maxValMs, t) ==
    IF minValMs = maxValMs \/ maxValMs < minValMs \/ maxValMs = 0
    THEN NoHist
    ELSE [minValMs        |-> minValMs,
          maxValMs        |-> maxValMs,
          bucketMissCount |-> 0,
          bucketCount     |-> maxValMs - minValMs,
          buckets         |-> <<>>,
          intervalLast    |-> t,
          cumulativeMs    |-> 0,
          cumulativeLast  |-> ZeroTv]

ltn_histogram_alloc_video_defaults(t) == ltn_histogram_alloc(0, 16 * 1000, t)

(* The classification of ltn_histogram_interval_update: a miss, or one     *)
(* bucket incremented.                                                     *)
IntervalObserve(ctx, diffMs, t) ==
    IF U32LessU64(diffMs, ctx.minValMs) \/ U64LessU32(ctx.maxValMs, diffMs)
    THEN [ctx |-> [ctx EXCEPT !.bucketMissCount = @ + 1], ret |-> -1]
    ELSE LET i == ltn_histogram_bucket(ctx, diffMs)
         IN  [ctx |-> [ctx EXCEPT !.buckets =
                         SetBucket(@, i, [count      |-> Bucket(ctx, i).count + 1,
                                          lastUpdate |-> t])],
              ret |-> diffMs]

ltn_histogram_interval_update(ctx, t) ==
    LET r      == ltn_histogram_timeval_subtract(t, ctx.intervalLast).result
        diffMs == ltn_histogram_timeval_to_ms(r)
    IN  IntervalObserve([ctx EXCEPT !.intervalLast = t], diffMs, t)

ltn_histogram_cumulative_initialize(ctx) == [ctx EXCEPT !.cumulativeMs = 0]

ltn_histogram_cumulative_begin(ctx, t) == [ctx EXCEPT !.cumulativeLast = t]

ltn_histogram_cumulative_end_assign(ctx, t) ==
    LET s   == ltn_histogram_timeval_subtract(t, ctx.cumulativeLast)
        val == ltn_histogram_timeval_to_ms(s.result)
    IN  [ctx |-> [ctx EXCEPT !.cumulativeLast = s.y, !.cumulativeMs = val],
         ret |-> val]

ltn_histogram_cumulative_end(ctx, t) ==
    LET s   == ltn_histogram_timeval_subtract(t, ctx.cumulativeLast)
        val == ltn_histogram_timeval_to_ms(s.result)
    IN  [ctx |-> [ctx EXCEPT !.cumulativeLast = s.y, !.cumulativeMs = @ + val],
         ret |-> val]

ltn_histogram_cumulative_finalize(ctx, t) ==
    IF ULess(ctx.cumulativeMs, ctx.minValMs) \/ ULess(ctx.maxValMs, ctx.cumulativeMs)
    THEN [ctx |-> [ctx EXCEPT !.bucketMissCount = @ + 1],
          ret |-> ctx.cumulativeMs]
    ELSE LET i == ltn_histogram_bucket(ctx, ctx.cumulativeMs)
         IN  [ctx |-> [ctx EXCEPT !.buckets =
                         SetBucket(@, i, [count      |-> Bucket(ctx, i).count + 1,
                                          lastUpdate |-> t])],
              ret |-> ctx.cumulativeMs]

-----------------------------------------------------------------------------
(* discovered_item_alloc: the record built from the packet's headers.  The *)
(* ASCII addresses are kept as the dotted bytes inet_ntoa prints (the      *)
(* bytes of the address in memory order) and the ntohs of the port.  The   *)
(* stream model, the latency probe and the protocol statistics are other   *)
(* modules' objects and are left out.                                      *)

discovered_item_alloc(hdr, le, t) ==
    [saddr      |-> hdr.saddr,
     daddr      |-> hdr.daddr,
     uh_sport   |-> hdr.uh_sport,
     uh_dport   |-> hdr.uh_dport,
     srcaddr    |-> <<Store32(hdr.saddr, le), Ntohs(hdr.uh_sport, le)>>,
     dstaddr    |-> <<Store32(hdr.daddr, le), Ntohs(hdr.uh_dport, le)>>,
     iat_lwm_us |-> 50000000,
     iat_hwm_us |-> -1,
     iat_cur_us |-> 0,
     packetIntervals |-> ltn_histogram_alloc_video_defaults(t),
     state      |-> {}]

discovered_item_state_set(item, flag) ==
    [item EXCEPT !.state = @ \cup {flag}]

discovered_item_state_clr(item, flag) ==
    [item EXCEPT !.state = @ \ {flag}]

discovered_item_state_get(item, flag) == flag \in item.state

-----------------------------------------------------------------------------
(* discovered_item_insert.                                                 *)

(* The sort key: uint64_t a = (uint64_t)ntohl(daddr) << 16;                *)
(* a |= uh_dport;  the port is the header field as stored.                 *)
SortKeyRawPort(item, le) ==
    LET a == Ntohl(item.daddr, le)
    IN  <<0, a[1], a[2], BitOr(0, item.uh_dport)>>

SortKey(item, le) == SortKeyRawPort(item, le)

(* if (a == b) both the new item p and the list element e are marked.      *)
MarkOnlyNew(heap, p, e) ==
    [heap EXCEPT ![p] = discovered_item_state_set(@, "DST_DUPLICATE")]

MarkDuplicates(heap, p, e) ==
    [heap EXCEPT ![p] = discovered_item_state_set(@, "DST_DUPLICATE"),
                 ![e] = discovered_item_state_set(@, "DST_DUPLICATE")]

(* xorg_list_add(&di->list, e->list.prev): p goes right before position i; *)
(* xorg_list_append(&di->list, &ctx->list): p goes to the tail.            *)
xorg_list_add_before(lst, i, p) ==
    SubSeq(lst, 1, i - 1) \o <<p>> \o SubSeq(lst, i, Len(lst))

xorg_list_append(lst, p) == Append(lst, p)

(* The walk of xorg_list_for_each_entry: it stops at the first element e   *)
(* whose key a is not below the new key b (0: it ran off the end).         *)
InsertWalk(lst, heap, p, le) ==
    LET b == SortKey(heap[p], le)
        S == { i \in 1..Len(lst) : ~LimbsLess(SortKey(heap[lst[i]], le), b) }
    IN  IF S = {} THEN 0 ELSE CHOOSE i \in S : \A j \in S : i <= j

discovered_item_insert(lst, heap, p, le) ==
    LET i == InsertWalk(lst, heap, p, le)
    IN  IF i = 0
        THEN [list |-> xorg_list_append(lst, p), di |-> heap]
        ELSE [list |-> xorg_list_add_before(lst, i, p),
              di   |-> IF SortKey(heap[lst[i]], le) = SortKey(heap[p], le)
                       THEN MarkDuplicates(heap, p, lst[i])
                       ELSE heap]

-----------------------------------------------------------------------------
(* discovered_item_findcreate.                                             *)

(* The cache lookup: enumerate the slot's chain and compare each item's    *)
(* headers with the packet's; the first exact match is found.              *)
EnumChain(chain, heap, hdr) ==
    LET S == { i \in 1..Len(chain) :
                 chain[i] # NULL /\ network_addr_compare(hdr, heap[chain[i]]) }
    IN  IF S = {} THEN NULL
        ELSE chain[CHOOSE i \in S : \A j \in S : i <= j]

CacheLookupFirstInSlot(hi, heap, hash, hdr) ==
    IF hash_index_get_count(hi, hash) >= 1 THEN hi[hash][1] ELSE NULL

CacheLookup(hi, heap, hash, hdr) ==
    IF hash_index_get_count(hi, hash) >= 1
    THEN EnumChain(hi[hash], heap, hdr)
    ELSE NULL

(* calloc hands out an address no live record has.                         *)
NewPointer(heap) == Cardinality(DOMAIN heap) + 1

(* if (ctx->automaticallyRecordStreams) state_set(PCAP_RECORD_START), in   *)
(* the branch that created the record.                                     *)
AutoRecordStartOnFound(heap, found, created, auto) ==
    IF found # NULL /\ auto
    THEN [heap EXCEPT ![found] = discovered_item_state_set(@, "PCAP_RECORD_START")]
    ELSE heap

AutoRecordStart(heap, found, created, auto) ==
    IF created /\ auto
    THEN [heap EXCEPT ![found] = discovered_item_state_set(@, "PCAP_RECORD_START")]
    ELSE heap

(* if (!found) ctx->cacheMiss++; else ctx->cacheHit++;                     *)
CountLookupAsMiss(hit, h, m) == [cacheHit |-> h, cacheMiss |-> m + 1]

CountLookup(hit, h, m) ==
    IF hit = NULL THEN [cacheHit |-> h, cacheMiss |-> m + 1]
                  ELSE [cacheHit |-> h + 1, cacheMiss |-> m]

FindCreate(w, allocOk) ==
    LET hdr   == Headers(w, littleEndian)
        hash  == compute_stream_hash(hdr, littleEndian)
        hit   == CacheLookup(hashIndex, di, hash, hdr)
        p     == NewPointer(di)
        heap1 == [k \in DOMAIN di \cup {p} |->
                     IF k = p THEN discovered_item_alloc(hdr, littleEndian, now)
                              ELSE di[k]]
        ins   == discovered_item_insert(list, heap1, p, littleEndian)
        found == IF hit # NULL THEN hit ELSE IF allocOk THEN p ELSE NULL
        cnt   == CountLookup(hit, cacheHit, cacheMiss)
    IN  /\ lastHash' = hash
        /\ cacheHit' = cnt.cacheHit
        /\ cacheMiss' = cnt.cacheMiss
        /\ fc' = [calls |-> fc.calls + 1,
                  fails |-> fc.fails + (IF hit = NULL /\ ~allocOk THEN 1 ELSE 0),
                  w     |-> w,
                  pre   |-> [list |-> list, hashIndex |-> hashIndex,
                             cacheHit |-> cacheHit, cacheMiss |-> cacheMiss]]
        /\ cacheHitRatio' = [set |-> TRUE, miss |-> cacheMiss', hit |-> cacheHit']
        /\ IF hit = NULL /\ allocOk
           THEN /\ list' = ins.list
                /\ hashIndex' = hash_index_set(hashIndex, hash, p)
                /\ di' = AutoRecordStart(ins.di, p, TRUE, automaticallyRecordStreams)
           ELSE /\ UNCHANGED <<list, hashIndex>>
                /\ di' = AutoRecordStart(di, found, FALSE,
                                         automaticallyRecordStreams)
        /\ bk' = [op |-> "find_or_create", pre |-> di, n |-> bk.n]
        /\ lastRet' = found
        /\ returned' = returned \cup {<<w, found>>}
        /\ UNCHANGED <<littleEndian, automaticallyRecordStreams, verbose>>

-----------------------------------------------------------------------------
(* The registry specification: any sequence of find_or_create calls.       *)

NoHistogram ==
    /\ hist = NoHist
    /\ now = [tv_sec |-> 0, tv_usec |-> 0]
    /\ hg = [ops |-> 0]

(* Both threads outside the registry, the mutex free and the list head    *)
(* initialised by xorg_list_init.                                          *)
IdleCapture ==
    [pc |-> "idle", calls |-> 0, w |-> <<>>, hash |-> 0, found |-> NULL,
     p |-> NULL, e |-> NULL, prev |-> NULL, next |-> NULL,
     failed |-> FALSE, pre |-> <<>>, upd |-> <<>>]

IdleStats ==
    [pc |-> "idle", ops |-> 0, op |-> "none", e |-> NULL, doSelect |-> FALSE,
     p |-> NULL, prev |-> NULL, next |-> NULL, pre |-> <<>>, done |-> <<>>]

xorg_list_init == (ListHead :> [next |-> ListHead, prev |-> ListHead])

NoThreads ==
    /\ lock = "none"
    /\ cap = IdleCapture
    /\ ui = IdleStats
    /\ xl = xorg_list_init
    /\ freed = {}

NoCall ==
    [calls |-> 0, fails |-> 0, w |-> <<>>,
     pre |-> [list |-> <<>>, hashIndex |-> <<>>,
              cacheHit |-> 0, cacheMiss |-> 0]]

NoOp == [op |-> "none", pre |-> <<>>, n |-> 0]

InitRegistry ==
    /\ fc = NoCall
    /\ bk = NoOp
    /\ di = <<>>
    /\ list = <<>>
    /\ hashIndex = <<>>
    /\ cacheHit = 0
    /\ cacheMiss = 0
    /\ cacheHitRatio = [set |-> FALSE, miss |-> 0, hit |-> 0]
    /\ lastHash = 0
    /\ lastRet = NULL
    /\ returned = {}

Init ==
    /\ littleEndian \in BOOLEAN
    /\ automaticallyRecordStreams \in BOOLEAN
    /\ InitRegistry
    /\ NoHistogram
    /\ NoThreads
    /\ verbose = 0

FindCreateStep ==
    /\ fc.calls < MaxCalls
    /\ \E w \in Packets, allocOk \in BOOLEAN : FindCreate(w, allocOk)
    /\ UNCHANGED <<histVars, concVars>>

Next == FindCreateStep

Spec == Init /\ [][Next]_vars

-----------------------------------------------------------------------------
(* Properties of the registry.                                             *)

Live == { list[i] : i \in 1..Len(list) }

TuplesReturned == { x[1] : x \in { y \in returned : y[2] # NULL } }

(* C1: one flow record per distinct 4-tuple observed: two calls that       *)
(* returned a record returned the same one iff their 4-tuples are equal,   *)
(* the list holds each record once and as many records as there are        *)
(* distinct 4-tuples, also when 4-tuples share a hash slot.                *)
C1_OneRecordPerTuple ==
    /\ \A x, y \in returned :
          (x[2] # NULL /\ y[2] # NULL) => ((x[2] = y[2]) <=> (x[1] = y[1]))
    /\ Cardinality(Live) = Len(list)
    /\ Cardinality(TuplesReturned) = Len(list)
    /\ \A x \in returned : x[2] # NULL => x[2] \in Live

(* Two records with different destinations sit in one hash slot and a      *)
(* later call hit one of them.                                             *)
C1_Witness ==
    /\ cacheHit >= 1
    /\ \E h \in DOMAIN hashIndex :
          \E i, j \in 1..Len(hashIndex[h]) :
             di[hashIndex[h][i]].dstaddr # di[hashIndex[h][j]].dstaddr

(* The key of C2: the numeric destination address and port, as shown in    *)
(* dstaddr.                                                                *)
NumericKey(item) == item.dstaddr[1] \o <<item.dstaddr[2]>>

(* C2: after every find_or_create the list is sorted ascending by the      *)
(* numeric destination address and port.                                   *)
C2_SortedByNumericPort ==
    \A i \in 1..Len(list) - 1 :
        ~LimbsLess(NumericKey(di[list[i + 1]]), NumericKey(di[list[i]]))

(* C3: any two distinct records of the list that share the destination     *)
(* address and port both carry DST_DUPLICATE.                              *)
C3_DuplicatesMarked ==
    \A i, j \in 1..Len(list) :
        (i # j /\ di[list[i]].dstaddr = di[list[j]].dstaddr)
            => /\ discovered_item_state_get(di[list[i]], "DST_DUPLICATE")
               /\ discovered_item_state_get(di[list[j]], "DST_DUPLICATE")

(* Three records share one destination.                                    *)
C3_Witness ==
    \E i, j, k \in 1..Len(list) :
        /\ i < j /\ j < k
        /\ di[list[i]].dstaddr = di[list[j]].dstaddr
        /\ di[list[j]].dstaddr = di[list[k]].dstaddr
        /\ \A n \in {i, j, k} :
              discovered_item_state_get(di[list[n]], "DST_DUPLICATE")

(* The 4-tuple of a packet and of a record, as addresses and port numbers. *)
PortNumber(b) == b[1] * 256 + b[2]

WireTuple(w) == <<<<w.sip, PortNumber(w.sport)>>, <<w.dip, PortNumber(w.dport)>>>>

RecordTuple(item) == <<item.srcaddr, item.dstaddr>>

Existed(w, lst, heap) ==
    \E i \in 1..Len(lst) : RecordTuple(heap[lst[i]]) = WireTuple(w)

(* C11: the last find_or_create added one to cacheHit if a record with the *)
(* packet's 4-tuple was in the list before it and one to cacheMiss if not, *)
(* leaving the other counter; cacheHit + cacheMiss is the number of calls  *)
(* and, when no allocation failed, cacheMiss is the number of records.     *)
C11_CountersCountCalls ==
    /\ cacheHit + cacheMiss = fc.calls
    /\ fc.fails = 0 => cacheMiss = Len(list)
    /\ fc.calls > 0 =>
          IF Existed(fc.w, fc.pre.list, di)
          THEN cacheHit = fc.pre.cacheHit + 1 /\ cacheMiss = fc.pre.cacheMiss
          ELSE cacheMiss = fc.pre.cacheMiss + 1 /\ cacheHit = fc.pre.cacheHit

(* Two flows of one source were created and the first was seen again:      *)
(* two records, one hit, two misses.                                       *)
C11_Witness ==
    /\ fc.calls = 3 /\ fc.fails = 0
    /\ Len(list) = 2 /\ cacheHit = 1 /\ cacheMiss = 2
    /\ Existed(fc.w, fc.pre.list, di)
    /\ \A i \in 1..Len(list) : di[list[i]].srcaddr[1] = SrcA

(* C20: a call that created a record put it right before the first record *)
(* of the earlier list whose numeric key is not below the new record's, or *)
(* at the tail if there is none; the earlier records keep their order.     *)
C20_InsertedBeforeFirstNotBelow ==
    (fc.calls > 0 /\ Len(list) = Len(fc.pre.list) + 1) =>
       LET old == fc.pre.list
           S   == { i \in 1..Len(old) :
                      ~LimbsLess(NumericKey(di[old[i]]), NumericKey(di[lastRet])) }
           at  == IF S = {} THEN Len(old) + 1
                  ELSE CHOOSE i \in S : \A j \in S : i <= j
       IN  list = SubSeq(old, 1, at - 1) \o <<lastRet>> \o SubSeq(old, at, Len(old))

-----------------------------------------------------------------------------
(* The fingerprint specification: find_or_create on packets whose          *)
(* destinations cover the bits the fingerprint keeps and the bits it       *)
(* drops, each registry seeing an insertion and a second call.             *)

HashPackets ==
    { WirePacket(SrcA, 5000, <<a, 0, c, d>>, p) :
         a \in {10, 239}, c \in {0, 15, 16, 255}, d \in {0, 1, 255},
         p \in {0, 15, 256, 4000, 65535} }

InitHash ==
    /\ littleEndian \in BOOLEAN
    /\ automaticallyRecordStreams = FALSE
    /\ InitRegistry
    /\ NoHistogram
    /\ NoThreads
    /\ verbose = 0

HashProbe ==
    /\ fc.calls < 2
    /\ \E w \in HashPackets : FindCreate(w, TRUE)
    /\ UNCHANGED <<histVars, concVars>>

NextHash == HashProbe

SpecHash == InitHash /\ [][NextHash]_vars

(* The fingerprint of the destination a.b.c.d:port in arithmetic: the low  *)
(* 12 bits of the address above the low 4 bits of the port.                *)
ExpectedFingerprint(ip, port) ==
    ((ip[3] % 16) * 256 + ip[4]) * 16 + (port % 16)

WireFingerprint(w) ==
    ExpectedFingerprint(w.dip, w.dport[1] * 256 + w.dport[2])

(* C9: the fingerprint find_or_create computes is                          *)
(* ((A << 4) & 0xFFF0) | (P & 0x000F) of the packet's host-order           *)
(* destination address A and port P, lies in [0, 0x10000), and every       *)
(* record sits in the slot its packets are looked up in (a repeated packet *)
(* is a hit).                                                              *)
C9_Fingerprint ==
    /\ lastHash \in 0..65535
    /\ lastRet # NULL =>
          \E x \in returned : x[2] = lastRet /\ lastHash = WireFingerprint(x[1])
    /\ \A x \in returned :
          x[2] # NULL =>
             /\ WireFingerprint(x[1]) \in DOMAIN hashIndex
             /\ \E i \in 1..Len(hashIndex[WireFingerprint(x[1])]) :
                   hashIndex[WireFingerprint(x[1])][i] = x[2]
    /\ cacheMiss = Cardinality(TuplesReturned)

(* A packet was looked up again and found, on a little-endian host, in a   *)
(* slot that has address bits and port bits set.                           *)
C9_Witness ==
    /\ littleEndian
    /\ cacheHit = 1
    /\ lastHash > 4095
    /\ lastHash % 16 # 0

-----------------------------------------------------------------------------
(* The 256-flow scenario: one source, destinations 10.0.0.1:4000..4255,    *)
(* each packet once in ascending port order, then the same pass again.     *)

S4Ports == 4000..4255

S4Flows == Cardinality(S4Ports)

S4Packet(n) == WirePacket(SrcA, 5000, DstA, 4000 + (n % S4Flows))

InitS4 ==
    /\ littleEndian \in BOOLEAN
    /\ automaticallyRecordStreams \in BOOLEAN
    /\ InitRegistry
    /\ NoHistogram
    /\ NoThreads
    /\ verbose = 0

S4Call ==
    /\ fc.calls < 2 * S4Flows
    /\ FindCreate(S4Packet(fc.calls), TRUE)
    /\ UNCHANGED <<histVars, concVars>>

NextS4 == S4Call

SpecS4 == InitS4 /\ [][NextS4]_vars

(* C10: once every flow was seen, the second pass returns the records of   *)
(* the first pass with no new miss, and no slot holds more than 16.        *)
C10_SecondPass ==
    /\ \A h \in DOMAIN hashIndex : Len(hashIndex[h]) <= 16
    /\ cacheMiss <= S4Flows
    /\ cacheHit + cacheMiss >= S4Flows =>
          /\ cacheMiss = S4Flows
          /\ Len(list) = S4Flows
          /\ Cardinality(returned) = S4Flows
          /\ \A x \in returned : x[2] \in Live

(* The second pass is complete.                                            *)
C10_Witness ==
    /\ cacheHit = S4Flows
    /\ cacheMiss = S4Flows
    /\ \E h \in DOMAIN hashIndex : Len(hashIndex[h]) = 16

-----------------------------------------------------------------------------
(* The histogram specification: one histogram, allocated with the video    *)
(* preset or with another range, under any sequence of its calls.  The     *)
(* wallclock moves between the calls, also backwards.                      *)

TvToUs(tv) == tv.tv_sec * 1000000 + tv.tv_usec

AddUs(tv, d) ==
    [tv_sec  |-> (TvToUs(tv) + d) \div 1000000,
     tv_usec |-> (TvToUs(tv) + d) % 1000000]

(* The clock steps, in microseconds.                                       *)
Deltas(ctx) ==
    { -1000, 0, 500, 3000, (ctx.maxValMs - 1) * 1000 + 999,
      ctx.maxValMs * 1000, (ctx.maxValMs + 1) * 1000 }

(* The milliseconds between two clock readings, rounded down.              *)
MsBetween(from, to) == (TvToUs(to) - TvToUs(from)) \div 1000

InitHist ==
    /\ littleEndian = TRUE
    /\ automaticallyRecordStreams = FALSE
    /\ InitRegistry
    /\ NoThreads
    /\ verbose = 0
    /\ \E us \in {0, 999500} : now = [tv_sec |-> 100, tv_usec |-> us]
    /\ hist \in {ltn_histogram_alloc_video_defaults(now)}
                \cup { ltn_histogram_alloc(r[1], r[2], now) :
                          r \in {<<2, 5>>, <<3, 3>>, <<5, 2>>, <<0, 0>>} }
    /\ hg = [ops |-> 0, updates |-> 0, nObs |-> 0, touched |-> {}, phase |-> "idle",
             pairs |-> 0,
             begin |-> now, sum |-> 0,
             last |-> [op |-> "alloc", d |-> 0, ret |-> 0, pre |-> hist]]

HistCall(op, d, res, t, g) ==
    /\ hist' = res.ctx
    /\ now' = t
    /\ hg' = [g EXCEPT !.ops = hg.ops + 1,
                       !.last = [op |-> op, d |-> d, ret |-> res.ret, pre |-> hist]]
    /\ UNCHANGED <<regVars, concVars, traceVars>>

Touched(pre, post) ==
    { i \in DOMAIN post.buckets : post.buckets[i].count # Bucket(pre, i).count }

IntervalUpdate ==
    /\ hist # NoHist /\ hg.ops < MaxHistOps /\ hg.updates < MaxUpdates
    /\ \E dt \in Deltas(hist) :
          LET t   == AddUs(now, dt)
              res == ltn_histogram_interval_update(hist, t)
          IN  HistCall("interval_update", MsBetween(hist.intervalLast, t), res, t,
                       [hg EXCEPT !.nObs = @ + 1, !.updates = @ + 1,
                                  !.touched = @ \cup Touched(hist, res.ctx)])

Reset ==
    /\ hist # NoHist /\ hg.ops < MaxHistOps
    /\ HistCall("reset", 0, [ctx |-> ltn_histogram_reset(hist, now), ret |-> 0], now,
                [hg EXCEPT !.nObs = 0, !.phase = "idle"])

CumulativeInitialize ==
    /\ hist # NoHist /\ hg.ops < MaxHistOps
    /\ hg.phase \in {"idle", "window"}
    /\ HistCall("cumulative_initialize", 0,
                [ctx |-> ltn_histogram_cumulative_initialize(hist), ret |-> 0], now,
                [hg EXCEPT !.phase = "window", !.sum = 0, !.pairs = 0])

CumulativeBegin ==
    /\ hist # NoHist /\ hg.ops < MaxHistOps
    /\ hg.phase = "window"
    /\ HistCall("cumulative_begin", 0,
                [ctx |-> ltn_histogram_cumulative_begin(hist, now), ret |-> 0], now,
                [hg EXCEPT !.phase = "begun", !.begin = now])

CumulativeEnd ==
    /\ hist # NoHist /\ hg.ops < MaxHistOps
    /\ hg.phase = "begun"
    /\ \E dt \in Deltas(hist) :
          LET t == AddUs(now, dt)
          IN  HistCall("cumulative_end", MsBetween(hg.begin, t),
                       ltn_histogram_cumulative_end(hist, t), t,
                       [hg EXCEPT !.phase = "window", !.pairs = @ + 1,
                                  !.sum = @ + MsBetween(hg.begin, t)])

CumulativeFinalize ==
    /\ hist # NoHist /\ hg.ops < MaxHistOps
    /\ hg.phase = "window"
    /\ LET res == ltn_histogram_cumulative_finalize(hist, now)
       IN  HistCall("cumulative_finalize", hg.sum, res, now,
                    [hg EXCEPT !.phase = "idle", !.nObs = @ + 1,
                               !.touched = @ \cup Touched(hist, res.ctx)])

NextHist ==
    \/ IntervalUpdate
    \/ Reset
    \/ CumulativeInitialize
    \/ CumulativeBegin
    \/ CumulativeEnd
    \/ CumulativeFinalize

SpecHist == InitHist /\ [][NextHist]_vars

-----------------------------------------------------------------------------
(* Properties of the histogram.  hg.last holds the last call: its name,    *)
(* the observation d in milliseconds as the clock readings give it (for    *)
(* cumulative_finalize: the sum of the window's per-pair milliseconds),    *)
(* what it returned and the histogram before it.                           *)

Written(a, b) == DOMAIN a.buckets \cup DOMAIN b.buckets

SameCounts(a, b) ==
    \A i \in Written(a, b) : Bucket(a, i).count = Bucket(b, i).count

RECURSIVE SumCounts(_, _)
SumCounts(ctx, S) ==
    IF S = {} THEN 0
    ELSE LET i == CHOOSE k \in S : TRUE
         IN  ctx.buckets[i].count + SumCounts(ctx, S \ {i})

IsObservation == hg.last.op \in {"interval_update", "cumulative_finalize"}

(* C5: an observation d with minMs <= d < maxMs increments exactly         *)
(* buckets[d - minMs] and leaves every other bucket and bucketMissCount;   *)
(* any other observation, d = maxMs among them, increments                 *)
(* bucketMissCount and changes no bucket.                                  *)
C5_BucketOrMiss ==
    IsObservation =>
        LET pre == hg.last.pre
            d   == hg.last.d
        IN  IF pre.minValMs <= d /\ d < pre.maxValMs
            THEN /\ Bucket(hist, d - pre.minValMs).count
                       = Bucket(pre, d - pre.minValMs).count + 1
                 /\ \A i \in Written(hist, pre) \ {d - pre.minValMs} :
                       Bucket(hist, i).count = Bucket(pre, i).count
                 /\ hist.bucketMissCount = pre.bucketMissCount
            ELSE /\ hist.bucketMissCount = pre.bucketMissCount + 1
                 /\ SameCounts(hist, pre)

(* C6: the counts of the N = maxMs - minMs buckets plus bucketMissCount    *)
(* add up to the number of interval_update and cumulative_finalize calls   *)
(* since the allocation or the last reset.                                 *)
C6_CountsAddUp ==
    hist # NoHist =>
        SumCounts(hist, { i \in DOMAIN hist.buckets : i < hist.bucketCount })
            + hist.bucketMissCount = hg.nObs

(* C7: after reset every bucket count an earlier observation incremented   *)
(* is 0, bucketMissCount and cumulativeMs are 0 and the range and the      *)
(* bucket count are unchanged.                                             *)
C7_ResetClears ==
    hg.last.op = "reset" =>
        /\ \A i \in hg.touched : Bucket(hist, i).count = 0
        /\ hist.bucketMissCount = 0
        /\ hist.cumulativeMs = 0
        /\ hist.minValMs = hg.last.pre.minValMs
        /\ hist.maxValMs = hg.last.pre.maxValMs
        /\ hist.bucketCount = hg.last.pre.bucketCount

(* C8: cumulative_finalize at the end of a window of paired begin/end      *)
(* calls changes the bucket counts and bucketMissCount as one              *)
(* interval-mode observation of the sum of the per-pair milliseconds       *)
(* does, and returns that sum (as a uint64_t).                             *)
C8_WindowIsOneObservation ==
    hg.last.op = "cumulative_finalize" =>
        LET one == IntervalObserve(hg.last.pre, hg.sum, now).ctx
        IN  /\ SameCounts(hist, one)
            /\ hist.bucketMissCount = one.bucketMissCount
            /\ hg.last.ret = hg.sum

(* A window of two pairs whose sum is inside the range was finalized.      *)
C8_Witness ==
    /\ hg.last.op = "cumulative_finalize"
    /\ hg.pairs >= 2
    /\ hg.sum > hist.minValMs /\ hg.sum < hist.maxValMs
    /\ Bucket(hist, hg.sum - hist.minValMs).count
          = Bucket(hg.last.pre, hg.sum - hist.minValMs).count + 1

(* C19: an interval_update whose clock reading is earlier than            *)
(* intervalLast counts as an observation of 0 ms: on a histogram with      *)
(* minMs = 0 it increments buckets[0] and leaves bucketMissCount.          *)
C19_NegativeIntervalIsZero ==
    ( /\ hg.last.op = "interval_update"
      /\ TvToUs(now) < TvToUs(hg.last.pre.intervalLast)
      /\ hg.last.pre.minValMs = 0 )
    => /\ Bucket(hist, 0).count = Bucket(hg.last.pre, 0).count + 1
       /\ hist.bucketMissCount = hg.last.pre.bucketMissCount

-----------------------------------------------------------------------------
(* The thread specification: the capture thread calls find_or_create while *)
(* the stats/UI thread runs the bulk operations.  Each step is one access  *)
(* to shared memory; the ordered list is held as its nodes, and `list` is  *)
(* the sequence read from the head whenever a link or unlink completes.    *)

MaxConcCalls == 2

MaxBulkOps == 2

ConcPackets ==
    { WirePacket(SrcA, 5000, DstA, 255), WirePacket(SrcB, 5000, DstA, 255),
      WirePacket(SrcA, 5000, DstA, 256) }

pthread_mutex_lock(t) == lock = "none" /\ lock' = t

pthread_mutex_unlock(t) == lock' = "none"

SetNext(x, n, v) == [x EXCEPT ![n].next = v]

SetPrev(x, n, v) == [x EXCEPT ![n].prev = v]

RECURSIVE ListFrom(_, _, _)
ListFrom(x, n, fuel) ==
    IF n = ListHead \/ n \notin DOMAIN x \/ fuel = 0 THEN <<>>
    ELSE <<n>> \o ListFrom(x, x[n].next, fuel - 1)

ListOf(x) == ListFrom(x, x[ListHead].next, Cardinality(DOMAIN x))

(* The cache lookup when the chain may hold the address of a freed record: *)
(* comparing the packet with freed memory can come out either way.         *)
LookupOutcomes(hi, heap, hash, hdr) ==
    IF hash_index_get_count(hi, hash) = 0 THEN {NULL}
    ELSE LET chain == hi[hash]
             Gone(i) == chain[i] \notin DOMAIN heap
             Match(i) == ~Gone(i) /\ network_addr_compare(hdr, heap[chain[i]])
             First(i) == \A j \in 1..(i - 1) : ~Match(j)
         IN  IF \A i \in 1..Len(chain) : ~Gone(i)
             THEN {CacheLookup(hi, heap, hash, hdr)}
             ELSE { chain[i] : i \in { k \in 1..Len(chain) :
                                         (Gone(k) \/ Match(k)) /\ First(k) } }
                  \cup (IF \E i \in 1..Len(chain) : Match(i) THEN {} ELSE {NULL})

(* calloc returns a fresh address or one that free() took back.            *)
Addresses == {Cardinality(DOMAIN di \cup freed) + 1} \cup freed

InitConc ==
    /\ littleEndian = TRUE
    /\ automaticallyRecordStreams \in BOOLEAN
    /\ verbose \in 0..4
    /\ InitRegistry
    /\ NoHistogram
    /\ NoThreads

(* find_or_create, the capture thread.                                     *)
FcBegin ==
    /\ cap.pc = "idle" /\ cap.calls < MaxConcCalls
    /\ \E w \in ConcPackets :
          LET hdr == Headers(w, littleEndian)
              h   == compute_stream_hash(hdr, littleEndian)
          IN  /\ cap' = [IdleCapture EXCEPT
                            !.pc = IF verbose > 3 THEN "print" ELSE "lock",
                            !.calls = cap.calls + 1, !.w = w, !.hash = h]
              /\ lastHash' = h
    /\ UNCHANGED <<littleEndian, automaticallyRecordStreams, verbose, di, list,
                   hashIndex,
                   cacheHit, cacheMiss, cacheHitRatio, lastRet, returned,
                   histVars, traceVars, lock, ui, xl, freed>>

(* if (ctx->verbose > 3) hash_index_print(ctx->hashIndex, hash): the slot's *)
(* chain is read and printed.                                              *)
FcPrint ==
    /\ cap.pc = "print"
    /\ hash_index_get_count(hashIndex, cap.hash) >= 0
    /\ cap' = [cap EXCEPT !.pc = "lock"]
    /\ UNCHANGED <<regVars, histVars, traceVars, lock, ui, xl, freed>>

FcLockSkipped ==
    /\ cap.pc = "lock"
    /\ cap' = [cap EXCEPT !.pc = "lookup",
                          !.pre = [list |-> ListOf(xl), hashIndex |-> hashIndex]]
    /\ UNCHANGED <<regVars, histVars, traceVars, lock, ui, xl, freed>>

FcLock ==
    /\ cap.pc = "lock"
    /\ pthread_mutex_lock("capture")
    /\ cap' = [cap EXCEPT !.pc = "lookup",
                          !.pre = [list |-> ListOf(xl), hashIndex |-> hashIndex]]
    /\ UNCHANGED <<regVars, histVars, traceVars, ui, xl, freed>>

FcLookup ==
    /\ cap.pc = "lookup"
    /\ \E hit \in LookupOutcomes(hashIndex, di, cap.hash,
                                 Headers(cap.w, littleEndian)) :
          /\ cacheHit' = CountLookup(hit, cacheHit, cacheMiss).cacheHit
          /\ cacheMiss' = CountLookup(hit, cacheHit, cacheMiss).cacheMiss
          /\ cacheHitRatio' = [set |-> TRUE, miss |-> cacheMiss', hit |-> cacheHit']
          /\ IF hit # NULL
             THEN /\ cap' = [cap EXCEPT !.pc = "unlock", !.found = hit]
                  /\ UNCHANGED <<di, xl, freed>>
             ELSE \E allocOk \in BOOLEAN :
                    IF ~allocOk
                    THEN /\ cap' = [cap EXCEPT !.pc = "unlock", !.found = NULL,
                                               !.failed = TRUE]
                         /\ UNCHANGED <<di, xl, freed>>
                    ELSE \E p \in Addresses :
                           /\ di' = [k \in DOMAIN di \cup {p} |->
                                       IF k = p
                                       THEN discovered_item_alloc(
                                              Headers(cap.w, littleEndian),
                                              littleEndian, now)
                                       ELSE di[k]]
                           /\ xl' = [k \in DOMAIN xl \cup {p} |->
                                       IF k = p THEN [next |-> NULL, prev |-> NULL]
                                                ELSE xl[k]]
                           /\ freed' = freed \ {p}
                           /\ cap' = [cap EXCEPT !.pc = "first", !.found = p, !.p = p]
    /\ UNCHANGED <<littleEndian, automaticallyRecordStreams, verbose, list, hashIndex,
                   lastHash, lastRet, returned, histVars, traceVars, lock, ui>>

(* discovered_item_insert: the walk, then the four stores of xorg_list_add. *)
FcFirst ==
    /\ cap.pc = "first"
    /\ cap' = [cap EXCEPT !.pc = "walk", !.e = xl[ListHead].next]
    /\ UNCHANGED <<regVars, histVars, traceVars, lock, ui, xl, freed>>

FcWalk ==
    /\ cap.pc = "walk"
    /\ IF cap.e = ListHead
       THEN /\ cap' = [cap EXCEPT !.pc = "add1", !.prev = xl[ListHead].prev,
                                  !.next = ListHead]
            /\ di' = di
       ELSE LET a == SortKey(di[cap.e], littleEndian)
                b == SortKey(di[cap.p], littleEndian)
            IN  IF LimbsLess(a, b)
                THEN cap' = [cap EXCEPT !.e = xl[cap.e].next] /\ di' = di
                ELSE /\ di' = IF a = b THEN MarkDuplicates(di, cap.p, cap.e) ELSE di
                     /\ cap' = [cap EXCEPT !.pc = "add1", !.prev = xl[cap.e].prev,
                                           !.next = xl[xl[cap.e].prev].next]
    /\ UNCHANGED <<littleEndian, automaticallyRecordStreams, verbose, list, hashIndex,
                   cacheHit, cacheMiss, cacheHitRatio, lastHash, lastRet, returned,
                   histVars, traceVars, lock, ui, xl, freed>>

FcAdd1 ==
    /\ cap.pc = "add1"
    /\ xl' = SetPrev(xl, cap.next, cap.p)
    /\ cap' = [cap EXCEPT !.pc = "add2"]
    /\ UNCHANGED <<regVars, histVars, traceVars, lock, ui, freed>>

FcAdd2 ==
    /\ cap.pc = "add2"
    /\ xl' = SetNext(xl, cap.p, cap.next)
    /\ cap' = [cap EXCEPT !.pc = "add3"]
    /\ UNCHANGED <<regVars, histVars, traceVars, lock, ui, freed>>

FcAdd3 ==
    /\ cap.pc = "add3"
    /\ xl' = SetPrev(xl, cap.p, cap.prev)
    /\ cap' = [cap EXCEPT !.pc = "add4"]
    /\ UNCHANGED <<regVars, histVars, traceVars, lock, ui, freed>>

FcAdd4 ==
    /\ cap.pc = "add4"
    /\ xl' = SetNext(xl, cap.prev, cap.p)
    /\ list' = ListOf(xl')
    /\ cap' = [cap EXCEPT !.pc = "index"]
    /\ UNCHANGED <<littleEndian, automaticallyRecordStreams, verbose, di, hashIndex,
                   cacheHit, cacheMiss, cacheHitRatio, lastHash, lastRet, returned,
                   histVars, traceVars, lock, ui, freed>>

FcIndex ==
    /\ cap.pc = "index"
    /\ hashIndex' = hash_index_set(hashIndex, cap.hash, cap.p)
    /\ di' = AutoRecordStart(di, cap.p, TRUE, automaticallyRecordStreams)
    /\ cap' = [cap EXCEPT !.pc = "unlock"]
    /\ UNCHANGED <<littleEndian, automaticallyRecordStreams, verbose, list,
                   cacheHit, cacheMiss, cacheHitRatio, lastHash, lastRet, returned,
                   histVars, traceVars, lock, ui, xl, freed>>

FcUnlockUnlessFailed ==
    /\ cap.pc = "unlock"
    /\ IF cap.failed THEN lock' = lock ELSE pthread_mutex_unlock("capture")
    /\ lastRet' = cap.found
    /\ returned' = returned \cup {<<cap.w, cap.found>>}
    /\ cap' = [IdleCapture EXCEPT
                  !.pc = IF cap.found = NULL THEN "idle" ELSE "update",
                  !.calls = cap.calls, !.failed = cap.failed, !.found = cap.found]
    /\ UNCHANGED <<littleEndian, automaticallyRecordStreams, verbose, di, list,
                   hashIndex,
                   cacheHit, cacheMiss, cacheHitRatio, lastHash,
                   histVars, traceVars, ui, xl, freed>>

FcUnlock ==
    /\ cap.pc = "unlock"
    /\ pthread_mutex_unlock("capture")
    /\ lastRet' = cap.found
    /\ returned' = returned \cup {<<cap.w, cap.found>>}
    /\ cap' = [IdleCapture EXCEPT
                  !.pc = IF cap.found = NULL THEN "idle" ELSE "update",
                  !.calls = cap.calls, !.failed = cap.failed, !.found = cap.found]
    /\ UNCHANGED <<littleEndian, automaticallyRecordStreams, verbose, di, list,
                   hashIndex,
                   cacheHit, cacheMiss, cacheHitRatio, lastHash,
                   histVars, traceVars, ui, xl, freed>>

(* The capture thread's use of the returned record: the packet's arrival   *)
(* goes into the record's IAT histogram, read first and stored after, with *)
(* no lock taken.  A record freed meanwhile is left alone.                 *)
PacketInterval == 3000

PacketUpdate ==
    /\ cap.pc = "update"
    /\ cap' = IF cap.found \in DOMAIN di
              THEN [cap EXCEPT
                      !.pc = "update2",
                      !.upd = ltn_histogram_interval_update(
                                  di[cap.found].packetIntervals,
                                  AddUs(now, PacketInterval)).ctx]
              ELSE [cap EXCEPT !.pc = "idle", !.found = NULL]
    /\ UNCHANGED <<regVars, histVars, traceVars, lock, ui, xl, freed>>

PacketUpdate2 ==
    /\ cap.pc = "update2"
    /\ di' = IF cap.found \in DOMAIN di
             THEN [di EXCEPT ![cap.found].packetIntervals = cap.upd]
             ELSE di
    /\ cap' = [cap EXCEPT !.pc = "idle", !.found = NULL, !.upd = <<>>]
    /\ UNCHANGED <<littleEndian, automaticallyRecordStreams, verbose, list,
                   hashIndex, cacheHit, cacheMiss, cacheHitRatio, lastHash,
                   lastRet, returned, histVars, traceVars, lock, ui, xl, freed>>

(* The bulk operations, the stats/UI thread.  Each of them is             *)
(*   lock; xorg_list_for_each_entry(e, &ctx->list, list) { body } unlock   *)
(* and LoopBody is the body: the record after it, the locals after it and  *)
(* whether it left the loop with break.                                    *)

ShowFlag ==
    [select_show_pids_toggle        |-> "SHOW_PIDS",
     select_show_tr101290_toggle    |-> "SHOW_TR101290",
     select_show_iats_toggle        |-> "SHOW_IAT_HISTOGRAM",
     select_show_streammodel_toggle |-> "SHOW_STREAMMODEL"]

LoopOps ==
    {"console_summary", "file_summary", "stats_reset", "select_first",
     "select_next", "select_prev", "select_all", "select_none",
     "select_record_toggle", "record_abort", "select_hide", "unhide_all"}
    \cup DOMAIN ShowFlag

BulkOps == LoopOps \cup {"free"}

Recording(item) ==
    discovered_item_state_get(item, "PCAP_RECORDING")
    \/ discovered_item_state_get(item, "PCAP_RECORD_START")

Step(heap, doSelect, p, brk) ==
    [di |-> heap, doSelect |-> doSelect, p |-> p, brk |-> brk]

(* The loop body of discovered_items_select_next.                          *)
SelectNextBodyHiddenToo(heap, x, e, doSelect, p) ==
    IF discovered_item_state_get(heap[e], "SELECTED")
    THEN Step(IF x[e].next # ListHead
              THEN [heap EXCEPT ![e] = discovered_item_state_clr(@, "SELECTED")]
              ELSE heap,
              TRUE, p, FALSE)
    ELSE IF doSelect
    THEN Step([heap EXCEPT ![e] = discovered_item_state_set(@, "SELECTED")],
              doSelect, p, TRUE)
    ELSE Step(heap, doSelect, p, FALSE)

SelectNextBody(heap, x, e, doSelect, p) ==
    IF discovered_item_state_get(heap[e], "HIDDEN")
    THEN Step(heap, doSelect, p, FALSE)
    ELSE IF discovered_item_state_get(heap[e], "SELECTED")
    THEN Step(IF x[e].next # ListHead
              THEN [heap EXCEPT ![e] = discovered_item_state_clr(@, "SELECTED")]
              ELSE heap,
              TRUE, p, FALSE)
    ELSE IF doSelect
    THEN Step([heap EXCEPT ![e] = discovered_item_state_set(@, "SELECTED")],
              doSelect, p, TRUE)
    ELSE Step(heap, doSelect, p, FALSE)

(* The loop body of discovered_items_select_prev.                          *)
SelectPrevBodyHiddenToo(heap, x, e, doSelect, p) ==
    IF discovered_item_state_get(heap[e], "SELECTED") /\ p # NULL
       /\ ~discovered_item_state_get(heap[e], "HIDDEN")
    THEN Step([heap EXCEPT ![e] = discovered_item_state_clr(@, "SELECTED"),
                           ![p] = discovered_item_state_set(@, "SELECTED")],
              doSelect, p, TRUE)
    ELSE Step(heap, doSelect, e, FALSE)

SelectPrevBody(heap, x, e, doSelect, p) ==
    IF discovered_item_state_get(heap[e], "HIDDEN")
    THEN Step(heap, doSelect, p, FALSE)
    ELSE IF discovered_item_state_get(heap[e], "SELECTED") /\ p # NULL
    THEN Step([heap EXCEPT ![e] = discovered_item_state_clr(@, "SELECTED"),
                           ![p] = discovered_item_state_set(@, "SELECTED")],
              doSelect, p, TRUE)
    ELSE Step(heap, doSelect, e, FALSE)

(* The loop body of discovered_items_select_record_toggle.                 *)
RecordToggleBodyAll(heap, x, e, doSelect, p) ==
    IF Recording(heap[e])
    THEN Step([heap EXCEPT ![e] = discovered_item_state_set(@, "PCAP_RECORD_STOP")],
              doSelect, p, FALSE)
    ELSE Step([heap EXCEPT ![e] = discovered_item_state_set(@, "PCAP_RECORD_START")],
              doSelect, p, FALSE)

RecordToggleBody(heap, x, e, doSelect, p) ==
    IF ~discovered_item_state_get(heap[e], "SELECTED")
    THEN Step(heap, doSelect, p, FALSE)
    ELSE IF Recording(heap[e])
    THEN Step([heap EXCEPT ![e] = discovered_item_state_set(@, "PCAP_RECORD_STOP")],
              doSelect, p, FALSE)
    ELSE Step([heap EXCEPT ![e] = discovered_item_state_set(@, "PCAP_RECORD_START")],
              doSelect, p, FALSE)

LoopBody(op, heap, x, e, doSelect, p, t) ==
    LET item      == heap[e]
        Same      == Step(heap, doSelect, p, FALSE)
        Put(v)    == [heap EXCEPT ![e] = v]
        Set(flag) == Put(discovered_item_state_set(item, flag))
        Clr(flag) == Put(discovered_item_state_clr(item, flag))
        selected  == discovered_item_state_get(item, "SELECTED")
        hidden    == discovered_item_state_get(item, "HIDDEN")
    IN  CASE op \in {"console_summary", "file_summary"} -> Same
          [] op = "stats_reset" ->
                Step(Put([item EXCEPT
                            !.iat_lwm_us = 5000000,
                            !.iat_hwm_us = -1,
                            !.packetIntervals = ltn_histogram_reset(@, t)]),
                     doSelect, p, FALSE)
          [] op = "select_first" -> Step(Set("SELECTED"), doSelect, p, TRUE)
          [] op = "select_next" -> SelectNextBody(heap, x, e, doSelect, p)
          [] op = "select_prev" -> SelectPrevBody(heap, x, e, doSelect, p)
          [] op = "select_all" -> Step(Set("SELECTED"), doSelect, p, FALSE)
          [] op = "select_none" -> Step(Clr("SELECTED"), doSelect, p, FALSE)
          [] op = "select_record_toggle" ->
                RecordToggleBody(heap, x, e, doSelect, p)
          [] op = "record_abort" ->
                IF Recording(item)
                THEN Step(Set("PCAP_RECORD_STOP"), doSelect, p, FALSE)
                ELSE Same
          [] op \in DOMAIN ShowFlag ->
                IF ~selected THEN Same
                ELSE IF discovered_item_state_get(item, ShowFlag[op])
                THEN Step(Clr(ShowFlag[op]), doSelect, p, FALSE)
                ELSE Step(Set(ShowFlag[op]), doSelect, p, FALSE)
          [] op = "select_hide" ->
                IF ~selected THEN Same
                ELSE IF discovered_item_state_get(item, "PCAP_RECORDING") THEN Same
                ELSE Step(Set("HIDDEN"), doSelect, p, FALSE)
          [] op = "unhide_all" -> Step(Clr("HIDDEN"), doSelect, p, FALSE)

BulkBegin ==
    /\ ui.pc = "idle" /\ ui.ops < MaxBulkOps
    /\ \E op \in BulkOps :
          ui' = [IdleStats EXCEPT !.pc = "lock", !.ops = ui.ops + 1, !.op = op]
    /\ UNCHANGED <<regVars, histVars, traceVars, lock, cap, xl, freed>>

BulkLock ==
    /\ ui.pc = "lock"
    /\ pthread_mutex_lock("stats")
    /\ ui' = [ui EXCEPT !.pc = IF ui.op = "free" THEN "empty" ELSE "first",
                         !.pre = IF ui.op = "free" THEN ListOf(xl) ELSE <<>>]
    /\ UNCHANGED <<regVars, histVars, traceVars, cap, xl, freed>>

BulkFirst ==
    /\ ui.pc = "first"
    /\ ui' = [ui EXCEPT !.pc = "iter", !.e = xl[ListHead].next]
    /\ UNCHANGED <<regVars, histVars, traceVars, lock, cap, xl, freed>>

BulkIter ==
    /\ ui.pc = "iter"
    /\ IF ui.e = ListHead
       THEN ui' = [ui EXCEPT !.pc = "unlock"] /\ di' = di
       ELSE LET r == LoopBody(ui.op, di, xl, ui.e, ui.doSelect, ui.p, now)
            IN  /\ di' = r.di
                /\ ui' = IF r.brk
                         THEN [ui EXCEPT !.pc = "unlock", !.doSelect = r.doSelect,
                                         !.p = r.p]
                         ELSE [ui EXCEPT !.e = xl[ui.e].next,
                                         !.doSelect = r.doSelect, !.p = r.p]
    /\ UNCHANGED <<littleEndian, automaticallyRecordStreams, verbose, list, hashIndex,
                   cacheHit, cacheMiss, cacheHitRatio, lastHash, lastRet, returned,
                   histVars, traceVars, lock, cap, xl, freed>>

(* discovered_items_free: while the list is not empty, unlink the first    *)
(* entry (the two stores of xorg_list_del) and free it.                    *)
FreeEmpty ==
    /\ ui.pc = "empty"
    /\ ui' = IF xl[ListHead].next = ListHead
             THEN [ui EXCEPT !.pc = "unlock"]
             ELSE LET d == xl[ListHead].next
                  IN  [ui EXCEPT !.pc = "del1", !.e = d, !.prev = xl[d].prev,
                                 !.next = xl[d].next]
    /\ UNCHANGED <<regVars, histVars, traceVars, lock, cap, xl, freed>>

FreeDel1 ==
    /\ ui.pc = "del1"
    /\ xl' = SetPrev(xl, ui.next, ui.prev)
    /\ ui' = [ui EXCEPT !.pc = "del2"]
    /\ UNCHANGED <<regVars, histVars, traceVars, lock, cap, freed>>

FreeDel2 ==
    /\ ui.pc = "del2"
    /\ xl' = SetNext(xl, ui.prev, ui.next)
    /\ list' = ListOf(xl')
    /\ ui' = [ui EXCEPT !.pc = "free"]
    /\ UNCHANGED <<littleEndian, automaticallyRecordStreams, verbose, di, hashIndex,
                   cacheHit, cacheMiss, cacheHitRatio, lastHash, lastRet, returned,
                   histVars, traceVars, lock, cap, freed>>

FreeItemOnce ==
    /\ ui.pc = "free"
    /\ di' = [k \in DOMAIN di \ {ui.e} |-> di[k]]
    /\ xl' = [k \in DOMAIN xl \ {ui.e} |-> xl[k]]
    /\ freed' = freed \cup {ui.e}
    /\ ui' = [ui EXCEPT !.pc = "unlock", !.e = NULL, !.prev = NULL, !.next = NULL,
                         !.done = Append(@, ui.e)]
    /\ UNCHANGED <<littleEndian, automaticallyRecordStreams, verbose, list, hashIndex,
                   cacheHit, cacheMiss, cacheHitRatio, lastHash, lastRet, returned,
                   histVars, traceVars, lock, cap>>

FreeItem ==
    /\ ui.pc = "free"
    /\ di' = [k \in DOMAIN di \ {ui.e} |-> di[k]]
    /\ xl' = [k \in DOMAIN xl \ {ui.e} |-> xl[k]]
    /\ freed' = freed \cup {ui.e}
    /\ ui' = [ui EXCEPT !.pc = "empty", !.e = NULL, !.prev = NULL, !.next = NULL,
                         !.done = Append(@, ui.e)]
    /\ UNCHANGED <<littleEndian, automaticallyRecordStreams, verbose, list, hashIndex,
                   cacheHit, cacheMiss, cacheHitRatio, lastHash, lastRet, returned,
                   histVars, traceVars, lock, cap>>

BulkUnlockForgotten ==
    /\ ui.pc = "unlock"
    /\ ui' = [IdleStats EXCEPT !.ops = ui.ops]
    /\ UNCHANGED <<regVars, histVars, traceVars, lock, cap, xl, freed>>

BulkUnlock ==
    /\ ui.pc = "unlock"
    /\ pthread_mutex_unlock("stats")
    /\ ui' = [IdleStats EXCEPT !.ops = ui.ops]
    /\ UNCHANGED <<regVars, histVars, traceVars, cap, xl, freed>>

NextConc ==
    \/ FcBegin \/ FcPrint \/ FcLock \/ FcLookup \/ FcFirst \/ FcWalk
    \/ FcAdd1 \/ FcAdd2 \/ FcAdd3 \/ FcAdd4 \/ FcIndex \/ FcUnlock
    \/ PacketUpdate \/ PacketUpdate2
    \/ BulkBegin \/ BulkLock \/ BulkFirst \/ BulkIter
    \/ FreeEmpty \/ FreeDel1 \/ FreeDel2 \/ FreeItem \/ BulkUnlock

SpecConc == InitConc /\ [][NextConc]_vars

(* The thread specification under fair scheduling: a thread that is       *)
(* inside an operation and can take its next step is eventually scheduled. *)
(* Whether and when a thread starts an operation is up to its caller.      *)
CaptureRuns ==
    \/ FcPrint \/ FcLock \/ FcLookup \/ FcFirst \/ FcWalk
    \/ FcAdd1 \/ FcAdd2 \/ FcAdd3 \/ FcAdd4 \/ FcIndex \/ FcUnlock
    \/ PacketUpdate \/ PacketUpdate2

StatsRuns ==
    \/ BulkLock \/ BulkFirst \/ BulkIter
    \/ FreeEmpty \/ FreeDel1 \/ FreeDel2 \/ FreeItem \/ BulkUnlock

InitFair ==
    /\ littleEndian = TRUE
    /\ automaticallyRecordStreams = FALSE
    /\ verbose \in {0, 4}
    /\ InitRegistry
    /\ NoHistogram
    /\ NoThreads

SpecConcFair ==
    InitFair /\ [][NextConc]_vars /\ WF_vars(CaptureRuns) /\ WF_vars(StatsRuns)

-----------------------------------------------------------------------------
(* Properties of the thread specification.                                 *)

InList(x) == {ListHead} \cup { ListOf(x)[i] : i \in 1..Len(ListOf(x)) }

Consistent(x) ==
    \A n \in InList(x) : x[n].next \in DOMAIN x /\ x[x[n].next].prev = n

CaptureListAccess == {"first", "walk", "add1", "add2", "add3", "add4"}

StatsListAccess == {"first", "iter", "empty", "del1", "del2"}

(* C4: every step of find_or_create and of the bulk operations that reads  *)
(* or writes a node of the ordered list is taken by the thread holding the *)
(* registry mutex; the list has a node n with n.next.prev # n only between *)
(* the stores of one thread's link or unlink, and the other thread is then *)
(* at no step that reads the list.                                         *)
C4_ListUnderLock ==
    /\ cap.pc \in CaptureListAccess => lock = "capture"
    /\ ui.pc \in StatsListAccess => lock = "stats"
    /\ ~Consistent(xl) =>
          \/ /\ lock = "capture" /\ cap.pc \in {"add2", "add3", "add4"}
             /\ ui.pc \notin StatsListAccess
          \/ /\ lock = "stats" /\ ui.pc = "del2"
             /\ cap.pc \notin CaptureListAccess

(* The capture thread is between the stores that link a second record into *)
(* a populated list, the list is inconsistent, and the stats/UI thread has *)
(* started a traversal and waits for the mutex.                            *)
C4_Witness ==
    /\ ~Consistent(xl)
    /\ cap.pc = "add3" /\ Len(list) >= 1
    /\ ui.pc = "lock" /\ ui.op \in LoopOps
    /\ lock = "capture"

(* C24: discovered_items_free, started on a list of any length the model  *)
(* reaches, terminates; at its return the ordered list is empty, the       *)
(* records it freed are the records the list held when it took the mutex,  *)
(* each once and each live when freed, and after the return the stats/UI   *)
(* thread does not hold the mutex.                                         *)
C24_FreeAllDrains ==
    /\ [] ( /\ (ui.op = "free" /\ ui.pc = "free") =>
                  ui.e \in DOMAIN di /\ ui.e \notin freed
            /\ (ui.op = "free" /\ ui.pc = "unlock") =>
                  /\ ListOf(xl) = <<>> /\ list = <<>>
                  /\ Len(ui.done) = Len(ui.pre)
                  /\ \A i \in 1..Len(ui.pre) :
                        /\ Cardinality({ k \in 1..Len(ui.done) :
                                            ui.done[k] = ui.pre[i] }) = 1
                        /\ ui.pre[i] \notin DOMAIN di
                  /\ lock = "stats"
            /\ ui.pc = "idle" => lock # "stats" )
    /\ (ui.op = "free" /\ ui.pc = "lock") ~> (ui.pc = "idle" /\ lock # "stats")

(* discovered_items_free is at its return after freeing the two records    *)
(* the list held.                                                          *)
C24_Witness ==
    /\ ui.op = "free" /\ ui.pc = "unlock"
    /\ Len(ui.pre) = 2 /\ Len(ui.done) = 2
    /\ freed = {1, 2}

(* The places of the hash index that hold the record p.                   *)
Registered(p) ==
    { <<h, k>> \in UNION { {h} \X (1..Len(hashIndex[h])) : h \in DOMAIN hashIndex } :
         hashIndex[h][k] = p }

(* C25: whenever no thread holds the mutex, every record of the ordered     *)
(* list is registered in the hash index exactly once, in the slot of its   *)
(* destination's fingerprint, every entry of the hash index is a record of *)
(* the list, none is a freed record, and a record find_or_create is about  *)
(* to return or has returned to a caller still using it is not freed.      *)
C25_IndexMatchesList ==
    /\ lock = "none" =>
          /\ \A i \in 1..Len(list) :
                Registered(list[i]) =
                   { <<compute_stream_hash(di[list[i]], littleEndian), k>> :
                        k \in { j \in 1..hash_index_get_count(hashIndex,
                                         compute_stream_hash(di[list[i]], littleEndian)) :
                                   hashIndex[compute_stream_hash(di[list[i]], littleEndian)][j]
                                      = list[i] } }
                /\ Cardinality(Registered(list[i])) = 1
          /\ \A h \in DOMAIN hashIndex : \A k \in 1..Len(hashIndex[h]) :
                /\ hashIndex[h][k] \notin freed
                /\ \E i \in 1..Len(list) : list[i] = hashIndex[h][k]
    /\ (cap.pc = "unlock" /\ cap.found # NULL) =>
          cap.found \in DOMAIN di /\ cap.found \notin freed

(* The steps of an operation between its pthread_mutex_lock and its      *)
(* pthread_mutex_unlock, the unlock included.                              *)
CaptureLocked ==
    {"lookup", "first", "walk", "add1", "add2", "add3", "add4", "index", "unlock"}

StatsLocked == {"first", "iter", "empty", "del1", "del2", "free", "unlock"}

(* C26: a thread holds the registry mutex exactly from the one             *)
(* pthread_mutex_lock of its operation to the pthread_mutex_unlock before  *)
(* its return, on every path (hit, miss, failed allocation, every bulk     *)
(* operation and free_all); it takes the mutex only when it does not hold  *)
(* it; while a thread is inside an operation some thread can take a step;  *)
(* and under fair scheduling every operation a thread started returns.     *)
C26_LockedOnceAndReturns ==
    /\ [] ( /\ lock = "capture" <=> cap.pc \in CaptureLocked
            /\ lock = "stats" <=> ui.pc \in StatsLocked
            /\ (cap.pc # "idle" \/ ui.pc # "idle") =>
                  ENABLED (CaptureRuns \/ StatsRuns) )
    /\ [][ /\ (lock' = "capture" /\ lock # "capture") =>
                 (cap.pc = "lock" /\ lock = "none")
           /\ (lock' = "stats" /\ lock # "stats") =>
                 (ui.pc = "lock" /\ lock = "none") ]_vars
    /\ (cap.pc # "idle") ~> (cap.pc = "idle" /\ lock # "capture")
    /\ (ui.pc # "idle") ~> (ui.pc = "idle" /\ lock # "stats")

(* The capture thread holds the mutex on the path of a failed allocation,  *)
(* about to release it, while the stats/UI thread waits for the mutex in   *)
(* free_all.                                                               *)
C26_Witness ==
    /\ lock = "capture" /\ cap.pc = "unlock" /\ cap.failed
    /\ ui.pc = "lock" /\ ui.op = "free"

HashIndexAccess == {"print", "lookup", "index"}

(* C17: every step of find_or_create that reads or writes the hash index,  *)
(* the diagnostic print included, is taken with the registry mutex held,   *)
(* at every verbosity.                                                     *)
C17_HashIndexUnderLock ==
    cap.pc \in HashIndexAccess => lock = "capture"

(* C18: the capture thread changes a record's IAT histogram only with the *)
(* registry lock held, and it is never between the read and the store of  *)
(* its interval_update on a record while the stats/UI thread's stats_reset *)
(* is at that record.                                                      *)
C18_RecordUpdateUnderLock ==
    /\ cap.pc \in {"update", "update2"} => lock = "capture"
    /\ ~( /\ cap.pc = "update2"
          /\ ui.pc = "iter" /\ ui.op = "stats_reset" /\ ui.e = cap.found )

(* C16: a find_or_create whose allocation failed reaches its return with  *)
(* nil as result and with the ordered list and the hash index as they were *)
(* when it took the lock, and has released the lock once it has returned.  *)
C16_FailedAllocLeavesRegistry ==
    /\ (cap.failed /\ cap.pc = "unlock") =>
          /\ cap.found = NULL
          /\ ListOf(xl) = cap.pre.list /\ list = cap.pre.list
          /\ hashIndex = cap.pre.hashIndex
    /\ (cap.failed /\ cap.pc = "idle") => (lastRet = NULL /\ lock # "capture")

(* A call on a registry holding a record failed to allocate and returned;  *)
(* the stats/UI thread has since taken the lock.                           *)
C16_Witness ==
    /\ cap.failed /\ cap.pc = "idle" /\ lastRet = NULL
    /\ Len(list) >= 1 /\ hashIndex # <<>>
    /\ lock = "stats"

-----------------------------------------------------------------------------
(* The bulk operations as whole calls: with the mutex held from the first  *)
(* to the last iteration, a call is the loop run over the list as it is.   *)

NodesOf(lst) ==
    LET At(i) == IF i = 0 \/ i = Len(lst) + 1 THEN ListHead ELSE lst[i]
    IN  [n \in {ListHead} \cup { lst[i] : i \in 1..Len(lst) } |->
           LET i == IF n = ListHead THEN 0
                    ELSE CHOOSE k \in 1..Len(lst) : lst[k] = n
           IN  [next |-> At(IF i = Len(lst) THEN Len(lst) + 1 ELSE i + 1),
                prev |-> At(IF i = 0 THEN Len(lst) ELSE i - 1)]]

RECURSIVE ForEachEntry(_, _, _, _, _, _, _)
ForEachEntry(op, heap, x, e, doSelect, p, t) ==
    IF e = ListHead THEN heap
    ELSE LET r == LoopBody(op, heap, x, e, doSelect, p, t)
         IN  IF r.brk THEN r.di
             ELSE ForEachEntry(op, r.di, x, x[e].next, r.doSelect, r.p, t)

BulkRun(op, lst, heap, t) ==
    ForEachEntry(op, heap, NodesOf(lst), NodesOf(lst)[ListHead].next,
                 FALSE, NULL, t)

Bulk(op) ==
    /\ di' = BulkRun(op, list, di, now)
    /\ bk' = [op |-> op, pre |-> di, n |-> bk.n + 1]
    /\ UNCHANGED <<littleEndian, automaticallyRecordStreams, verbose, list, hashIndex,
                   cacheHit, cacheMiss, cacheHitRatio, lastHash, lastRet, returned,
                   histVars, concVars, fc>>

(* The pcap recorder's worker: it takes up a requested start and carries   *)
(* out a requested stop.                                                   *)
RecorderStarts(p) ==
    /\ discovered_item_state_get(di[p], "PCAP_RECORD_START")
    /\ di' = [di EXCEPT ![p] =
                discovered_item_state_set(
                    discovered_item_state_clr(@, "PCAP_RECORD_START"),
                    "PCAP_RECORDING")]
    /\ bk' = [op |-> "recorder", pre |-> di, n |-> bk.n]
    /\ UNCHANGED <<littleEndian, automaticallyRecordStreams, verbose, list, hashIndex,
                   cacheHit, cacheMiss, cacheHitRatio, lastHash, lastRet, returned,
                   histVars, concVars, fc>>

RecorderStops(p) ==
    /\ discovered_item_state_get(di[p], "PCAP_RECORD_STOP")
    /\ di' = [di EXCEPT ![p] =
                discovered_item_state_clr(
                    discovered_item_state_clr(@, "PCAP_RECORD_STOP"),
                    "PCAP_RECORDING")]
    /\ bk' = [op |-> "recorder", pre |-> di, n |-> bk.n]
    /\ UNCHANGED <<littleEndian, automaticallyRecordStreams, verbose, list, hashIndex,
                   cacheHit, cacheMiss, cacheHitRatio, lastHash, lastRet, returned,
                   histVars, concVars, fc>>

-----------------------------------------------------------------------------
(* The recording specification: find_or_create, the flag operations of the *)
(* UI and the recorder's worker in any order.                              *)

MaxRecCalls == 2

MaxRecOps == 3

RecOps == LoopOps \ {"console_summary", "file_summary", "stats_reset"}

InitRec ==
    /\ littleEndian = TRUE
    /\ automaticallyRecordStreams \in BOOLEAN
    /\ InitRegistry
    /\ NoHistogram
    /\ NoThreads
    /\ verbose = 0

RecCreate ==
    /\ fc.calls < MaxRecCalls
    /\ \E w \in ConcPackets, allocOk \in BOOLEAN : FindCreate(w, allocOk)
    /\ UNCHANGED <<histVars, concVars>>

RecBulk ==
    /\ bk.n < MaxRecOps
    /\ \E op \in RecOps : Bulk(op)

RecRecorder ==
    \E p \in DOMAIN di : RecorderStarts(p) \/ RecorderStops(p)

NextRec == RecCreate \/ RecBulk \/ RecRecorder

SpecRec == InitRec /\ [][NextRec]_vars

(* C12: a find_or_create call sets PCAP_RECORD_START on a record exactly   *)
(* when automaticallyRecordStreams is set and the call created the record; *)
(* a call that hits an existing record, or any call with the setting       *)
(* clear, leaves the flag of every record as it was.                       *)
C12_StartOnlyOnCreate ==
    [][ fc'.calls = fc.calls + 1 =>
          \A p \in DOMAIN di' :
             LET before == p \in DOMAIN di
                           /\ discovered_item_state_get(di[p], "PCAP_RECORD_START")
                 after  == discovered_item_state_get(di'[p], "PCAP_RECORD_START")
             IN  /\ (p \notin DOMAIN di) => (after <=> automaticallyRecordStreams)
                 /\ (p \in DOMAIN di) => (after <=> before) ]_vars

(* With automatic recording on, the recorder took up the start of a record *)
(* and a later call then hit that record: it records, with no new start.   *)
C12_Witness ==
    /\ automaticallyRecordStreams
    /\ bk.op = "find_or_create" /\ cacheHit >= 1 /\ lastRet # NULL
    /\ lastRet \in DOMAIN bk.pre
    /\ discovered_item_state_get(bk.pre[lastRet], "PCAP_RECORDING")
    /\ ~discovered_item_state_get(bk.pre[lastRet], "PCAP_RECORD_START")
    /\ ~discovered_item_state_get(di[lastRet], "PCAP_RECORD_START")

(* C15: no record has PCAP_RECORDING and HIDDEN set at once.               *)
C15_RecordingNeverHidden ==
    \A p \in DOMAIN di :
        ~( discovered_item_state_get(di[p], "PCAP_RECORDING")
           /\ discovered_item_state_get(di[p], "HIDDEN") )

(* C22: select_record_toggle sets PCAP_RECORD_STOP on every SELECTED      *)
(* record that has PCAP_RECORDING or PCAP_RECORD_START, sets               *)
(* PCAP_RECORD_START on every other SELECTED record, and changes nothing   *)
(* else: no flag of an unselected record, no other flag or field of a      *)
(* selected one.                                                           *)
C22_ToggleChangesSelectedOnly ==
    bk.op = "select_record_toggle" =>
       /\ DOMAIN di = DOMAIN bk.pre
       /\ \A p \in DOMAIN di :
             di[p] = IF ~discovered_item_state_get(bk.pre[p], "SELECTED")
                     THEN bk.pre[p]
                     ELSE IF discovered_item_state_get(bk.pre[p], "PCAP_RECORDING")
                             \/ discovered_item_state_get(bk.pre[p], "PCAP_RECORD_START")
                     THEN [bk.pre[p] EXCEPT !.state = @ \cup {"PCAP_RECORD_STOP"}]
                     ELSE [bk.pre[p] EXCEPT !.state = @ \cup {"PCAP_RECORD_START"}]

(* Of two records the toggle found one SELECTED and recording, which got   *)
(* PCAP_RECORD_STOP, and one not SELECTED, which it left alone.            *)
C22_Witness ==
    /\ bk.op = "select_record_toggle" /\ Len(list) = 2
    /\ \E p, q \in DOMAIN di :
          /\ discovered_item_state_get(bk.pre[p], "SELECTED")
          /\ discovered_item_state_get(bk.pre[p], "PCAP_RECORDING")
          /\ ~discovered_item_state_get(bk.pre[p], "PCAP_RECORD_STOP")
          /\ discovered_item_state_get(di[p], "PCAP_RECORD_STOP")
          /\ ~discovered_item_state_get(bk.pre[q], "SELECTED")
          /\ di[q] = bk.pre[q]

-----------------------------------------------------------------------------
(* The selection specification: up to SelFlows flows of one source, their  *)
(* SELECTED and HIDDEN flags set and cleared through state_set and         *)
(* state_clr, and the selection operations.                                *)

SelFlows == 5

MaxSelOps == 2

SelOps ==
    {"select_first", "select_next", "select_prev", "select_all", "select_none",
     "select_hide", "unhide_all"}

SelPacket(n) == WirePacket(SrcA, 5000, DstA, 4001 + n)

InitSel ==
    /\ littleEndian \in BOOLEAN
    /\ automaticallyRecordStreams = FALSE
    /\ InitRegistry
    /\ NoHistogram
    /\ NoThreads
    /\ verbose = 0

SelCreate ==
    /\ fc.calls < SelFlows
    /\ FindCreate(SelPacket(fc.calls), TRUE)
    /\ UNCHANGED <<histVars, concVars>>

SelMark ==
    /\ \E p \in DOMAIN di, flag \in {"SELECTED", "HIDDEN"} :
          \/ /\ ~discovered_item_state_get(di[p], flag)
             /\ di' = [di EXCEPT ![p] = discovered_item_state_set(@, flag)]
             /\ bk' = [op |-> "state_set", pre |-> di, n |-> bk.n]
          \/ /\ discovered_item_state_get(di[p], flag)
             /\ di' = [di EXCEPT ![p] = discovered_item_state_clr(@, flag)]
             /\ bk' = [op |-> "state_clr", pre |-> di, n |-> bk.n]
    /\ UNCHANGED <<littleEndian, automaticallyRecordStreams, verbose, list, hashIndex,
                   cacheHit, cacheMiss, cacheHitRatio, lastHash, lastRet, returned,
                   histVars, concVars, fc>>

SelBulk ==
    /\ bk.n < MaxSelOps
    /\ \E op \in SelOps : Bulk(op)

NextSel == SelCreate \/ SelMark \/ SelBulk

SpecSel == InitSel /\ [][NextSel]_vars

Shown(heap, i) == ~discovered_item_state_get(heap[list[i]], "HIDDEN")

Chosen(heap, i) ==
    Shown(heap, i) /\ discovered_item_state_get(heap[list[i]], "SELECTED")

Positions == 1..Len(list)

(* C13: when exactly one shown record is SELECTED and a shown record       *)
(* follows it, select_next clears SELECTED on it, sets SELECTED on the     *)
(* first shown record after it and changes nothing else.                   *)
C13_NextMovesSelection ==
    bk.op = "select_next" =>
       \A i \in Positions :
          ( /\ Chosen(bk.pre, i)
            /\ \A k \in Positions \ {i} : ~Chosen(bk.pre, k)
            /\ \E j \in Positions : j > i /\ Shown(bk.pre, j) )
          => LET j == CHOOSE j \in Positions :
                        /\ j > i /\ Shown(bk.pre, j)
                        /\ \A k \in Positions : (k > i /\ Shown(bk.pre, k)) => j <= k
             IN  di = [bk.pre EXCEPT
                         ![list[i]] = discovered_item_state_clr(@, "SELECTED"),
                         ![list[j]] = discovered_item_state_set(@, "SELECTED")]

(* Of five records the second and the fourth were selected and hidden, the *)
(* first was selected, and select_next made the third the one shown record *)
(* that is SELECTED.                                                       *)
C13_Witness ==
    /\ bk.op = "select_next" /\ Len(list) = 5
    /\ \A i \in Positions :
          /\ Shown(bk.pre, i) <=> i \notin {2, 4}
          /\ discovered_item_state_get(bk.pre[list[i]], "SELECTED") <=> i \in {1, 2, 4}
          /\ Chosen(di, i) <=> i = 3

(* C14: when the SELECTED shown record is the last shown record of the     *)
(* list, select_next leaves it SELECTED and selects no other record, also  *)
(* when hidden records follow it; and select_next never leaves the list    *)
(* without a SELECTED shown record if it had one.                          *)
C14_NextKeepsLastSelection ==
    bk.op = "select_next" =>
       /\ \A i \in Positions :
             (Chosen(bk.pre, i) /\ \A k \in Positions : k > i => ~Shown(bk.pre, k))
             => /\ Chosen(di, i)
                /\ \A k \in Positions :
                      discovered_item_state_get(di[list[k]], "SELECTED")
                      => discovered_item_state_get(bk.pre[list[k]], "SELECTED")
       /\ (\E i \in Positions : Chosen(bk.pre, i)) => \E i \in Positions : Chosen(di, i)

(* C21: with one shown record SELECTED, select_prev moves SELECTED from it *)
(* to the nearest shown record before it and changes nothing else; if no   *)
(* shown record precedes it, select_prev changes nothing at all.           *)
C21_PrevMovesSelection ==
    bk.op = "select_prev" =>
       \A i \in Positions :
          (Chosen(bk.pre, i) /\ \A k \in Positions \ {i} : ~Chosen(bk.pre, k))
          => LET Before == { j \in Positions : j < i /\ Shown(bk.pre, j) }
             IN  IF Before = {} THEN di = bk.pre
                 ELSE LET j == CHOOSE j \in Before : \A k \in Before : k <= j
                      IN  di = [bk.pre EXCEPT
                                  ![list[i]] = discovered_item_state_clr(@, "SELECTED"),
                                  ![list[j]] = discovered_item_state_set(@, "SELECTED")]

(* Of five records the fourth was SELECTED and shown, the third hidden and *)
(* itself marked SELECTED, and select_prev moved the selection over it to  *)
(* the second.                                                             *)
C21_Witness ==
    /\ bk.op = "select_prev" /\ Len(list) = 5
    /\ Chosen(bk.pre, 4) /\ ~Shown(bk.pre, 3) /\ Shown(bk.pre, 2)
    /\ discovered_item_state_get(bk.pre[list[3]], "SELECTED")
    /\ \A k \in Positions \ {4} : ~Chosen(bk.pre, k)
    /\ \A k \in Positions : Chosen(di, k) <=> k = 2

-----------------------------------------------------------------------------
(* The statistics specification: records are created, the capture side     *)
(* feeds packet arrival times into the returned records' IAT histograms,   *)
(* flags are set and cleared, and discovered_items_stats_reset runs.       *)

MaxStatFlows == 2

MaxStatOps == 4

(* The packet gaps, in microseconds: a short one, exactly the upper end of *)
(* the video preset, and one beyond it.                                    *)
StatGaps == {3000, 16 * 1000 * 1000, 16001 * 1000}

InitStats ==
    /\ littleEndian = TRUE
    /\ automaticallyRecordStreams = FALSE
    /\ InitRegistry
    /\ NoHistogram
    /\ NoThreads
    /\ verbose = 0

StatCreate ==
    /\ fc.calls < MaxStatFlows
    /\ FindCreate(SelPacket(fc.calls), TRUE)
    /\ UNCHANGED <<histVars, concVars>>

(* The per-packet update of a record find_or_create returned.              *)
StatPacket ==
    /\ bk.n < MaxStatOps
    /\ \E p \in DOMAIN di, gap \in StatGaps :
          LET t == AddUs(now, gap)
          IN  /\ now' = t
              /\ di' = [di EXCEPT ![p].packetIntervals =
                           ltn_histogram_interval_update(@, t).ctx]
    /\ bk' = [op |-> "packet", pre |-> di, n |-> bk.n + 1]
    /\ UNCHANGED <<littleEndian, automaticallyRecordStreams, verbose, list, hashIndex,
                   cacheHit, cacheMiss, cacheHitRatio, lastHash, lastRet, returned,
                   hist, hg, concVars, fc>>

StatReset ==
    /\ bk.n < MaxStatOps
    /\ Bulk("stats_reset")

NextStats == StatCreate \/ StatPacket \/ SelMark \/ StatReset

SpecStats == InitStats /\ [][NextStats]_vars

(* C23: a call of stats_reset leaves every record of the list with         *)
(* iat_lwm_us = 5000000, iat_hwm_us = -1 and a histogram whose bucket       *)
(* counts, bucketMissCount and cumulativeMs are all 0, and leaves the      *)
(* list, the hash index, the set of records and every record's state flags *)
(* as they were.                                                           *)
C23_StatsResetResets ==
    [][ (bk'.op = "stats_reset" /\ bk'.n = bk.n + 1) =>
           /\ list' = list
           /\ hashIndex' = hashIndex
           /\ DOMAIN di' = DOMAIN di
           /\ \A i \in 1..Len(list) :
                 LET r == di'[list[i]]
                     h == r.packetIntervals
                 IN  /\ r.iat_lwm_us = 5000000
                     /\ r.iat_hwm_us = -1
                     /\ \A k \in DOMAIN h.buckets : h.buckets[k].count = 0
                     /\ h.bucketMissCount = 0
                     /\ h.cumulativeMs = 0
                     /\ r.state = di[list[i]].state ]_vars

=============================================================================
